---- MODULE Spec2Model ----
(***************************************************************************)
(* A model of the mboxrd streaming codec of flashmob/mbox: the decoder     *)
(* (decoder.Read / Close / Header) and the encoder (Open / Write / Close). *)
(* Bytes are one-character strings; Go's 0-based slices are 1-based        *)
(* sequences here, so input[iPos] of the source is input[iPos + 1].        *)
(***************************************************************************)
EXTENDS Integers, Sequences, FiniteSets, TLC

VARIABLES
    r,          \* the decoder instance (struct decoder)
    src,        \* the bytes of the underlying byte source
    srcPos,     \* how many bytes of src the source has handed out
    srcFault,   \* what the source will do: fail a read or not
    psize,      \* len(p) of the caller's destination buffer
    recs,       \* the records of a whole archive in src; <<>> if src is cut short
                \* (for a producer of two records: the record closed before)
    out,        \* every byte the Read calls have delivered, in order
    sigs,       \* the non-nil signals Read returned, with their output offset
    ret,        \* what the last Read call returned, and from which return
    w,          \* the encoder instance (struct encoder)
    sink,       \* the bytes the underlying byte sink has accepted
    fault,      \* what the sink will do: fail a write or not, Close method or not,
                \* and the slices of the Write calls it got, if it keeps them
    env,        \* the envelope (sender, time) the producer passes to Open
    body,       \* the body the producer pushes through Write
    bpos,       \* how many bytes of body have been passed to Write
    wret,       \* what the last encoder call returned
    phase       \* where the producer / consumer is: new, open, closed, decoding

decVars == <<r, src, srcPos, srcFault, psize, recs, out, sigs, ret>>
encVars == <<w, sink, fault, env, body, bpos, wret>>
vars == <<decVars, encVars, phase>>

----------------------------------------------------------------------------
(* Format constants                                                        *)

header == <<"F", "r", "o", "m", " ">>
escape == ">"
newLine == "\n"
eol == <<newLine>>

headerEscaped == <<">">> \o header
stuffing == <<">">>
spSize == 32

(* encoder scanner states: the iota block *)
writeStateHeader == 0
writeStateStartLine == 1
writeStateCopy == 2
writeStateMatchFrom == 3
writeStateMatchStuffing == 4

(* decoder scanner states: the iota block *)
readStateHeaderMagic == 0
readStateHeaderValues == 1
readStateStartLine == 2
readStatePutEol == 3
readStateCopy == 4
readStateMatchFrom == 5
readStateOutputFrom == 6
readStateHeaderMagicEOF == 7
readStateEnd == 8
readStateNextRecord == 9

(* error values; "nil" is Go's nil error, "EOF" is io.EOF *)
InvalidFormat == "InvalidFormat"
InvalidHeader == "InvalidHeader"
Panic == "panic"
SinkErr == "SinkErr"
SrcErr == "SrcErr"

(* bounds of the model *)
MaxLines == 2
MaxLines2 == 1
MaxSec == 1
MaxBodyLines == 2
MaxChunk == 2
MaxReopen == 1
MaxSinkCalls == 3
MaxSrcCalls == 2
MaxBefore == 2

Min(a, b) == IF a < b THEN a ELSE b

(* bytes.Index(s, eol): 0-based index of the first '\n' of s, or -1 *)
IndexEol(s) ==
    IF \E k \in 1..Len(s) : s[k] = newLine
    THEN (CHOOSE k \in 1..Len(s) :
            s[k] = newLine /\ \A j \in 1..(k - 1) : s[j] # newLine) - 1
    ELSE -1

(* s[a:b] of Go *)
Slice(s, a, b) == SubSeq(s, a + 1, b)

----------------------------------------------------------------------------
(* The decoder                                                             *)

(* NewReader: new(decoder) with the source bound; every field zero *)
NewReader ==
    [state |-> readStateHeaderMagic, iN |-> 0, iPos |-> 0, input |-> <<>>,
     cap |-> 0, err |-> "nil", matches |-> 0, escapeCount |-> 0, hPos |-> 0,
     header |-> <<>>]

(* The byte source the tests bind: bytes.Reader.Read fills at most cap bytes
   and returns (0, io.EOF) once everything has been handed out. *)
SrcRead(s, pos, cap) ==
    IF pos >= Len(s) THEN [n |-> 0, err |-> "EOF", bytes |-> <<>>]
    ELSE [n |-> Min(cap, Len(s) - pos), err |-> "nil",
          bytes |-> Slice(s, pos, pos + Min(cap, Len(s) - pos))]

(* A source whose Read fails once with an error that is not io.EOF: it
   serves left calls (-1: it never fails) and on the next returns the error
   together with up to with bytes; after that it serves every call again. *)
NoSrcFault == [left |-> -1, with |-> 0]

SrcReadFaulty(s, pos, cap, f) ==
    IF f.left = 0
    THEN LET m == Min(Min(f.with, cap), Len(s) - pos)
         IN  [n |-> m, err |-> SrcErr, bytes |-> Slice(s, pos, pos + m)]
    ELSE SrcRead(s, pos, cap)

(* the fault plan after one more call of the source's Read *)
SrcFaultAfter(f) ==
    IF f.left = 0 THEN NoSrcFault
    ELSE IF f.left > 0 THEN [f EXCEPT !.left = @ - 1]
    ELSE f

(* what a return statement of Read hands back *)
Ret(d, n, p, err, site) ==
    [d |-> d, n |-> n, p |-> p, err |-> err, site |-> site]

(* the inner loop of readStateOutputFrom *)
RECURSIVE OutputFromLoop(_, _, _, _)
OutputFromLoop(d, n, p, plen) ==
    IF Len(p) < plen
    THEN IF d.escapeCount > 0
         THEN OutputFromLoop([d EXCEPT !.escapeCount = @ - 1],
                             n + 1, Append(p, escape), plen)
         ELSE IF d.matches > 0
              THEN IF d.hPos >= Len(header)
                   THEN [d |-> d, n |-> n, p |-> p, panic |-> TRUE]
                   ELSE OutputFromLoop(
                            [d EXCEPT !.hPos = @ + 1, !.matches = @ - 1],
                            n + 1, Append(p, header[d.hPos + 1]), plen)
              ELSE [d |-> d, n |-> n, p |-> p, panic |-> FALSE]
    ELSE [d |-> d, n |-> n, p |-> p, panic |-> FALSE]

(* case readStateNextRecord *)
StepNextRecord(d) ==
    [d EXCEPT !.header = <<>>, !.state = readStateHeaderValues]

(* case readStateHeaderValues *)
StepHeaderValues(d) ==
    LET length == d.iN - d.iPos
        k == IndexEol(Slice(d.input, d.iPos, d.iPos + length))
    IN  IF k # -1
        THEN [d EXCEPT !.header = @ \o Slice(d.input, d.iPos, d.iPos + k),
                       !.matches = 0, !.escapeCount = 0,
                       !.state = readStateStartLine,
                       !.iPos = @ + k + 1]
        ELSE [d EXCEPT !.header = @ \o Slice(d.input, d.iPos, d.iPos + length),
                       !.iPos = @ + length]

(* case readStateStartLine *)
StepStartLine(d) ==
    LET c == d.input[d.iPos + 1]
    IN  IF c = escape
        THEN [d EXCEPT !.escapeCount = @ + 1, !.iPos = @ + 1]
        ELSE IF d.escapeCount > 0 /\ c = header[1]
        THEN [d EXCEPT !.matches = @ + 1, !.iPos = @ + 1,
                       !.state = readStateMatchFrom]
        ELSE IF d.escapeCount = 0 /\ c = newLine
        THEN [d EXCEPT !.iPos = @ + 1, !.state = readStateEnd]
        ELSE IF d.escapeCount > 0
        THEN [d EXCEPT !.state = readStateOutputFrom]
        ELSE [d EXCEPT !.state = readStateCopy]

(* case readStateMatchFrom *)
StepMatchFrom(d) ==
    LET c == d.input[d.iPos + 1]
    IN  IF d.matches = Len(header)
        THEN [d EXCEPT !.escapeCount = @ - 1, !.iPos = @ + 1,
                       !.state = readStateOutputFrom]
        ELSE IF c = header[d.matches + 1]
        THEN [d EXCEPT !.matches = @ + 1, !.iPos = @ + 1]
        ELSE IF d.escapeCount = 0 /\ d.matches = 0
        THEN [d EXCEPT !.state = readStateCopy]
        ELSE [d EXCEPT !.state = readStateOutputFrom]

(* case readStateCopy: the bytes copied and the decoder afterwards *)
StepCopy(d, i, plen) ==
    LET remaining == plen - i
        length0 == Min(d.iN - d.iPos, remaining)
        k == IndexEol(Slice(d.input, d.iPos, d.iPos + length0))
        length == IF k # -1 THEN k + 1 ELSE length0
        d1 == IF k # -1
              THEN [d EXCEPT !.matches = 0, !.escapeCount = 0,
                             !.state = readStateStartLine]
              ELSE d
    IN  [d |-> [d1 EXCEPT !.iPos = @ + length],
         bytes |-> Slice(d.input, d.iPos, d.iPos + length)]

(* BoundaryReturn without the switch to readStateNextRecord *)
BoundaryReturn_NoNextRecord(d, i, p) ==
    Ret([d EXCEPT !.state = readStateHeaderValues, !.matches = 0],
        i, p, "EOF", "boundary")

(* the marker after an empty line has matched in full: the return of Read at
   a boundary *)
BoundaryReturn(d, i, p) ==
    Ret([d EXCEPT !.state = readStateNextRecord, !.matches = 0],
        i, p, "EOF", "boundary")

(* one pass of the for loop of Read does not return: the loop goes on with
   the decoder d, the count n and the destination bytes p *)
Cont(d, n, p) == Ret(d, n, p, "nil", "continue")

(* one pass of the body of the for loop of Read (the switch on r.state): n
   is the count, p the bytes placed in the destination so far (i of the
   source is Len(p)), plen is len(p).  An index out of range
   (header[r.matches] with r.matches = 5, header[r.hPos] with r.hPos = 5) is
   a panic. *)
LoopBody(d, n, p, plen) ==
    LET i == Len(p)
    IN
    IF d.state = readStateNextRecord
    THEN Cont(StepNextRecord(d), n, p)
    ELSE IF d.state \in {readStateHeaderMagic, readStateHeaderMagicEOF}
    THEN IF d.matches >= Len(header)
         THEN Ret(d, n, p, Panic, "panic")
         ELSE IF d.input[d.iPos + 1] = header[d.matches + 1]
         THEN LET d1 == [d EXCEPT !.iPos = @ + 1, !.matches = @ + 1]
              IN  IF d1.matches = Len(header)
                  THEN IF d.state = readStateHeaderMagicEOF
                       THEN BoundaryReturn(d1, i, p)
                       ELSE Cont([d1 EXCEPT !.state = readStateHeaderValues,
                                            !.matches = 0], n, p)
                  ELSE Cont(d1, n, p)
         ELSE IF d.state = readStateHeaderMagicEOF
              THEN Cont([d EXCEPT !.state = readStatePutEol], n, p)
              ELSE Ret(d, n, p, InvalidFormat, "magic")
    ELSE IF d.state = readStatePutEol
    THEN IF plen - i > 0
         THEN Cont([d EXCEPT !.state = readStateOutputFrom],
                   n, Append(p, newLine))
         ELSE Cont(d, n, p)
    ELSE IF d.state = readStateHeaderValues
    THEN Cont(StepHeaderValues(d), n, p)
    ELSE IF d.state = readStateStartLine
    THEN Cont(StepStartLine(d), n, p)
    ELSE IF d.state = readStateMatchFrom
    THEN Cont(StepMatchFrom(d), n, p)
    ELSE IF d.state = readStateOutputFrom
    THEN LET o == OutputFromLoop(d, n, p, plen)
         IN  IF o.panic
             THEN Ret(o.d, o.n, o.p, Panic, "panic")
             ELSE Cont([o.d EXCEPT
                           !.hPos = IF o.d.matches = 0 THEN 0 ELSE @,
                           !.state = readStateCopy],
                       o.n, o.p)
    ELSE IF d.state = readStateCopy
    THEN LET c == StepCopy(d, i, plen)
         IN  Cont(c.d, n + Len(c.bytes), p \o c.bytes)
    ELSE IF d.state = readStateEnd
    THEN Cont([d EXCEPT !.state = readStateHeaderMagicEOF], n, p)
    ELSE Cont(d, n, p)

(* the for loop of Read: passes of the body while r.iPos < r.iN and
   i < len(p), until one of them returns; NextPass is what follows a pass
   with the result b *)
RECURSIVE ReadLoop(_, _, _, _)
NextPass(b, plen) ==
    IF b.site # "continue" THEN b ELSE ReadLoop(b.d, b.n, b.p, plen)

ReadLoop(d, n, p, plen) ==
    IF ~(d.iPos < d.iN /\ Len(p) < plen) THEN Ret(d, n, p, "nil", "loop")
    ELSE NextPass(LoopBody(d, n, p, plen), plen)

(* EofError with the header check off by one state *)
EofError_HeaderOffByOne(state) ==
    IF state < readStateHeaderValues THEN InvalidHeader
    ELSE IF state # readStateEnd THEN InvalidFormat
    ELSE "EOF"

(* EofError without the check for an unterminated body *)
EofError_NoFormatCheck(state) ==
    IF state < readStateStartLine THEN InvalidHeader ELSE "EOF"

(* the error Read keeps when the source reports end of data *)
EofError(state) ==
    IF state < readStateStartLine THEN InvalidHeader
    ELSE IF state # readStateEnd THEN InvalidFormat
    ELSE "EOF"

(* len(r.input) in a Read call with len(p) = plen: the window is made by
   the first call *)
InputLen(d, plen) == IF d.cap = 0 THEN plen ELSE d.cap

(* the statements of decoder.Read(p) before the for loop, with len(p) =
   plen, where got is what r.r.Read(r.input) returns if the call makes it and
   pos the position of the source: the return taken before the loop, or the
   decoder the loop starts with; the new source position and whether the
   source was read *)
ReadEnter(d, got, pos, plen) ==
    LET d0 == [d EXCEPT !.cap = InputLen(d, plen)]
        fill == d0.iPos = d0.iN
        d1 == IF fill
              THEN [d0 EXCEPT
                      !.iN = got.n,
                      !.input = got.bytes,
                      !.err = IF got.err = "EOF" THEN EofError(d0.state)
                              ELSE got.err]
              ELSE d0
        pos1 == IF fill THEN pos + got.n ELSE pos
        res == IF fill /\ d1.iN = 0
               THEN Ret(d1, 0, <<>>, d1.err, "source")
               ELSE LET d2 == IF fill THEN [d1 EXCEPT !.iPos = 0] ELSE d1
                    IN  IF d2.iN = 0 /\ d2.err = "EOF"
                        THEN Ret(d2, 0, <<>>, "EOF", "recycled")
                        ELSE Cont(d2, 0, <<>>)
    IN  [ret |-> res, pos |-> pos1, called |-> fill]

(* the rest of the call after the statements before the loop gave e: the
   return they took, or the for loop *)
ReadAfter(e, plen) ==
    [e EXCEPT !.ret = IF @.site # "continue" THEN @
                      ELSE ReadLoop(@.d, 0, <<>>, plen)]

(* what a Read call hands back: the decoder, the count, the destination
   bytes, the error, the return statement taken, the new source position and
   whether the source was read *)
ReadResult(e) ==
    [d |-> e.ret.d, n |-> e.ret.n, p |-> e.ret.p, err |-> e.ret.err,
     site |-> e.ret.site, pos |-> e.pos, called |-> e.called]

(* decoder.Read(p) with len(p) = plen, where got is what r.r.Read(r.input)
   returns if the call makes it and pos the position of the source *)
ReadFrom(d, got, pos, plen) ==
    ReadResult(ReadAfter(ReadEnter(d, got, pos, plen), plen))

(* decoder.Read(p) on a source that does not fail *)
Read(d, s, pos, plen) ==
    ReadFrom(d, SrcRead(s, pos, InputLen(d, plen)), pos, plen)

(* decoder.Close(): resets the header text, the input window and the state *)
ReaderClose(d) ==
    [d EXCEPT !.header = <<>>, !.iN = 0, !.iPos = 0,
              !.state = readStateHeaderMagic]

(* decoder.Header(): the error, the sender and the date of the accumulated
   header text.  time.Parse(time.ANSIC, text) is ParseANSIC. *)
TestEpoch == 1611714742

TestDate ==
    <<"W", "e", "d", " ", "J", "a", "n", " ", "2", "7", " ", "0", "2", ":",
      "3", "2", ":", "2", "2", " ", "2", "0", "2", "1">>

(* t.UTC().Format(time.ANSIC): the text carries whole seconds only.  The
   date of the tests is spelled out; other times are written "D <sec>". *)
FormatANSIC(t) ==
    IF t.sec = TestEpoch THEN TestDate ELSE <<"D", " ", ToString(t.sec)>>

Secs == (0..MaxSec) \cup {TestEpoch}

ZeroTime == [sec |-> -1, nsec |-> 0]

ParseANSIC(text) ==
    IF \E s \in Secs : FormatANSIC([sec |-> s, nsec |-> 0]) = text
    THEN [err |-> "nil",
          t |-> [sec |-> CHOOSE s \in Secs :
                            FormatANSIC([sec |-> s, nsec |-> 0]) = text,
                 nsec |-> 0]]
    ELSE [err |-> "parse", t |-> ZeroTime]

IndexSpace(s) ==
    IF \E k \in 1..Len(s) : s[k] = " "
    THEN (CHOOSE k \in 1..Len(s) :
            s[k] = " " /\ \A j \in 1..(k - 1) : s[j] # " ") - 1
    ELSE -1

Header(d) ==
    LET s == d.header
        i == IndexSpace(s)
        from == Slice(s, 0, i)
        parsed == IF Len(s) - 1 > i + 1
                  THEN ParseANSIC(Slice(s, i + 1, Len(s)))
                  ELSE [err |-> "nil", t |-> ZeroTime]
    IN  IF Len(s) > 0 /\ i # -1 /\ parsed.err = "nil"
        THEN [err |-> "nil", from |-> from, date |-> parsed.t]
        ELSE IF Len(s) > 0 /\ i # -1
        THEN [err |-> InvalidHeader, from |-> from, date |-> parsed.t]
        ELSE [err |-> InvalidHeader, from |-> <<>>, date |-> ZeroTime]

----------------------------------------------------------------------------
(* The encoder                                                             *)

(* NewWriter: new(encoder) with the sink bound; every field zero *)
NewWriter ==
    [state |-> writeStateHeader, n |-> 0, from |-> <<>>, date |-> <<>>,
     pos |-> 0, stuffingCount |-> 0, matches |-> 0, sb |-> <<>>]

(* The sink w.w as the encoder sees it: the bytes it has accepted, the number
   of Write calls it still serves before one fails (-1: it never fails), the
   bytes the failing call accepts, and whether it has a Close method (which
   succeeds).  After the failing call the sink serves every call again.  A
   sink with log set keeps in calls the slice of every Write call it gets. *)
NoFault ==
    [left |-> -1, acc |-> 0, closer |-> FALSE, log |-> FALSE, calls |-> <<>>]

SinkOf(bs, f) ==
    [bytes |-> bs, left |-> f.left, acc |-> f.acc, closer |-> f.closer,
     log |-> f.log, calls |-> f.calls]

FaultOf(k) ==
    [left |-> k.left, acc |-> k.acc, closer |-> k.closer, log |-> k.log,
     calls |-> k.calls]

(* a bytes.Buffer: an empty sink that accepts every byte *)
Buffer == SinkOf(<<>>, NoFault)

(* w.w.Write(b) *)
SinkWrite(k, b) ==
    IF k.left = 0
    THEN LET m == Min(k.acc, Len(b) - 1)
         IN  [k |-> [k EXCEPT !.bytes = @ \o SubSeq(b, 1, m), !.left = -1,
                              !.calls = IF k.log THEN Append(@, b) ELSE @],
              n |-> m, err |-> SinkErr]
    ELSE [k |-> [k EXCEPT !.bytes = @ \o b,
                          !.left = IF @ > 0 THEN @ - 1 ELSE @,
                          !.calls = IF k.log THEN Append(@, b) ELSE @],
          n |-> Len(b), err |-> "nil"]

(* io.Copy(w.w, bytes.NewReader(b)): the reader's WriteTo makes one Write call
   on the sink with all of b, and none when b is empty *)
Copy(k, b) ==
    IF b = <<>> THEN [k |-> k, n |-> 0, err |-> "nil"] ELSE SinkWrite(k, b)

(* encoder.writeByte(b): Write calls until one reports an error or a byte *)
writeByte(k, b) == SinkWrite(k, <<b>>)

(* FlushStuffing that hands the whole run to the sink in one piece *)
FlushStuffing_OnePiece(e, k) ==
    LET c == Copy(k, [j \in 1..e.stuffingCount |-> stuffing[1]])
    IN  [e |-> [e EXCEPT !.stuffingCount = @ - c.n, !.n = @ + c.n],
         sink |-> c.k, err |-> c.err]

(* n bytes of stuffingPool *)
StuffingPool(n) == [k \in 1..n |-> stuffing[1]]

(* the loop that writes the counted '>' run out in blocks of at most spSize;
   e is the encoder, k the sink *)
RECURSIVE FlushStuffing(_, _)
FlushStuffing(e, k) ==
    IF e.stuffingCount > 0
    THEN LET toCopy == Min(e.stuffingCount, spSize)
             c == Copy(k, StuffingPool(toCopy))
             e1 == [e EXCEPT !.stuffingCount = @ - c.n, !.n = @ + c.n]
         IN  IF c.err # "nil"
             THEN [e |-> e1, sink |-> c.k, err |-> c.err]
             ELSE FlushStuffing(e1, c.k)
    ELSE [e |-> e, sink |-> k, err |-> "nil"]

(* the number of consecutive stuffing bytes of p from p[pos] on, p[pos] being
   one: that many iterations of the loop of Write stay in
   writeStateMatchStuffing, and each adds one to stuffingCount and to pos *)
StuffingAt(p, pos) ==
    CHOOSE n \in 1..(Len(p) - pos) :
        /\ \A j \in 1..n : p[pos + j] = stuffing[1]
        /\ pos + n = Len(p) \/ p[pos + n + 1] # stuffing[1]

(* the for loop of Write over the chunk p *)
RECURSIVE WriteLoop(_, _, _)
WriteLoop(e, p, k) ==
    IF ~(e.pos < Len(p)) THEN [e |-> e, sink |-> k, n |-> e.n, err |-> "nil"]
    ELSE LET c == p[e.pos + 1] IN
    IF e.state = writeStateHeader
    THEN LET h == Copy(k, e.sb)
         IN  IF h.err # "nil"
             THEN [e |-> e, sink |-> h.k, n |-> 0, err |-> h.err]
             ELSE WriteLoop([e EXCEPT !.state = writeStateStartLine], p, h.k)
    ELSE IF e.state = writeStateStartLine
    THEN IF c = stuffing[1]
         THEN WriteLoop([e EXCEPT !.stuffingCount = 1, !.n = @ + 1,
                                  !.pos = @ + 1,
                                  !.state = writeStateMatchStuffing], p, k)
         ELSE IF c = header[1]
         THEN WriteLoop([e EXCEPT !.matches = 1, !.n = @ + 1, !.pos = @ + 1,
                                  !.state = writeStateMatchFrom], p, k)
         ELSE WriteLoop([e EXCEPT !.state = writeStateCopy], p, k)
    ELSE IF e.state = writeStateCopy
    THEN LET i == IndexEol(Slice(p, e.pos, Len(p)))
             length == IF i # -1 THEN i + 1 ELSE Len(p) - e.pos
             cp == Copy(k, Slice(p, e.pos, e.pos + length))
             e1 == [e EXCEPT !.state = IF i # -1 THEN writeStateStartLine
                                        ELSE @,
                             !.n = @ + cp.n]
         IN  IF cp.err # "nil"
             THEN [e |-> e1, sink |-> cp.k, n |-> e1.n, err |-> cp.err]
             ELSE WriteLoop([e1 EXCEPT !.pos = @ + cp.n], p, cp.k)
    ELSE IF e.state = writeStateMatchStuffing
    THEN IF c = stuffing[1]
         THEN WriteLoop([e EXCEPT !.stuffingCount = @ + StuffingAt(p, e.pos),
                                  !.pos = @ + StuffingAt(p, e.pos)], p, k)
         ELSE LET f == FlushStuffing(e, k)
              IN  IF f.err # "nil"
                  THEN [e |-> f.e, sink |-> f.sink, n |-> f.e.n, err |-> f.err]
                  ELSE IF c = newLine
                  THEN WriteLoop([f.e EXCEPT !.state = writeStateStartLine],
                                 p, f.sink)
                  ELSE IF c = header[1]
                  THEN WriteLoop([f.e EXCEPT !.pos = @ + 1, !.matches = 1,
                                             !.state = writeStateMatchFrom],
                                 p, f.sink)
                  ELSE WriteLoop([f.e EXCEPT !.state = writeStateCopy],
                                 p, f.sink)
    ELSE IF e.state = writeStateMatchFrom
    THEN IF e.matches = Len(header)
         THEN LET e1 == [e EXCEPT !.matches = 0]
                  he == Copy(k, headerEscaped)
              IN  IF he.err # "nil"
                  THEN [e |-> e1, sink |-> he.k, n |-> e1.n, err |-> he.err]
                  ELSE WriteLoop([e1 EXCEPT !.state = writeStateCopy], p, he.k)
         ELSE IF c = header[e.matches + 1]
         THEN WriteLoop([e EXCEPT !.matches = @ + 1, !.pos = @ + 1,
                                  !.n = @ + 1], p, k)
         ELSE LET pm == Copy(k, Slice(header, 0, e.matches))
                  wb == writeByte(pm.k, c)
                  e1 == [e EXCEPT !.n = @ + wb.n]
              IN  IF pm.err # "nil"
                  THEN [e |-> e, sink |-> pm.k, n |-> e.n, err |-> pm.err]
                  ELSE IF wb.err # "nil"
                  THEN [e |-> e1, sink |-> wb.k, n |-> e1.n, err |-> wb.err]
                  ELSE WriteLoop([e1 EXCEPT !.pos = @ + 1, !.matches = 0,
                                            !.state = writeStateCopy],
                                 p, wb.k)
    ELSE [e |-> e, sink |-> k, n |-> e.n, err |-> "nil"]

(* Write that also forgets the marker bytes matched by the call before *)
Write_ForgetsMatch(e, p, k) ==
    WriteLoop([e EXCEPT !.pos = 0, !.n = 0, !.matches = 0], p, k)

(* Write that starts every call in writeStateHeader *)
Write_ReentersHeader(e, p, k) ==
    WriteLoop([e EXCEPT !.pos = 0, !.n = 0, !.state = writeStateHeader], p, k)

(* encoder.Write(p) on the sink k *)
Write(e, p, k) == WriteLoop([e EXCEPT !.pos = 0, !.n = 0], p, k)

(* encoder.Open(from, t) *)
Open(e, from, t) ==
    [e EXCEPT !.from = from,
              !.date = FormatANSIC(t),
              !.sb = (((@ \o header) \o from) \o <<" ">>)
                     \o FormatANSIC(t) \o eol]

(* Close whose deferred function leaves the header text in place *)
Close_KeepsHeaderText(e, k) ==
    LET wb == writeByte(FlushStuffing(e, k).sink, newLine)
    IN  [e |-> [FlushStuffing(e, k).e EXCEPT !.state = writeStateHeader,
                                             !.matches = 0,
                                             !.stuffingCount = 0],
         sink |-> wb.k, err |-> wb.err]

(* encoder.Close() on the sink k; the deferred function resets state,
   matches, stuffingCount and sb on every return *)
Close(e, k) ==
    LET f == IF e.matches = 5
             THEN [e |-> e, sink |-> Copy(k, headerEscaped).k,
                   err |-> Copy(k, headerEscaped).err]
             ELSE IF e.stuffingCount > 0 THEN FlushStuffing(e, k)
             ELSE [e |-> e, sink |-> k, err |-> "nil"]
        wb == writeByte(f.sink, newLine)
        reset(x) == [x EXCEPT !.state = writeStateHeader, !.matches = 0,
                              !.stuffingCount = 0, !.sb = <<>>]
    IN  IF f.err # "nil"
        THEN [e |-> reset(f.e), sink |-> f.sink, err |-> f.err]
        ELSE [e |-> reset(f.e), sink |-> wb.k,
              err |-> IF wb.k.closer THEN "nil" ELSE wb.err]

----------------------------------------------------------------------------
(* Archives the decoder is driven on                                       *)

(* the header line of a record on the wire *)
HeaderLine(from, t) == header \o from \o <<" ">> \o FormatANSIC(t) \o eol

(* stored body lines: plain, stuffed marker, 2-run stuffed marker, empty,
   bare marker, run without marker, broken marker, marker at end of line,
   run followed by a broken marker *)
StoredLines ==
    { <<"x", newLine>>,
      <<escape>> \o header \o <<"x", newLine>>,
      <<escape, escape>> \o header \o <<"x", newLine>>,
      <<newLine>>,
      header \o <<"x", newLine>>,
      <<escape, "x", newLine>>,
      <<"F", "r", "o", "m", "x", newLine>>,
      <<escape>> \o header \o <<newLine>>,
      <<escape, "F", "x", newLine>> }

(* the lines the second record of an archive is built from *)
SecondLines ==
    { <<"x", newLine>>,
      <<escape>> \o header \o <<"x", newLine>> }

RECURSIVE Flatten(_)
Flatten(ss) == IF ss = <<>> THEN <<>> ELSE Head(ss) \o Flatten(Tail(ss))

SeqsUpTo(S, k) == UNION { [1..m -> S] : m \in 0..k }

(* a record: sender, time and stored body lines; on the wire it is the header
   line, the lines and the blank line that ends the record *)
Wire(rec) == HeaderLine(rec.from, rec.date) \o Flatten(rec.lines) \o eol

RECURSIVE WireAll(_)
WireAll(rs) == IF rs = <<>> THEN <<>> ELSE Wire(Head(rs)) \o WireAll(Tail(rs))

FirstRecords(maxLines) ==
    { [from |-> <<"a">>, date |-> [sec |-> 0, nsec |-> 0], lines |-> ls] :
        ls \in SeqsUpTo(StoredLines, maxLines) }

SecondRecords ==
    { [from |-> <<"b">>, date |-> [sec |-> 1, nsec |-> 0], lines |-> ls] :
        ls \in SeqsUpTo(SecondLines, MaxLines2) }

(* archives of one record of up to MaxLines lines, and of two records of up
   to MaxLines2 lines each *)
Archives ==
    { <<a>> : a \in FirstRecords(MaxLines) }
    \cup { <<a, b>> : a \in FirstRecords(MaxLines2), b \in SecondRecords }

(* the archives of the reader tests *)
readTest3 ==
    << [from |-> <<"t", "e", "s", "t", "@", "e", "x", "a", "m", "p", "l", "e", ".", "c", "o", "m">>,
        date |-> [sec |-> TestEpoch, nsec |-> 0],
        lines |-> <<
            <<">", ">", ">", ">", "F", "r", "o", "m", " ", "t", "h", "i",
              "s", " ", "s", "h", "o", "u", "l", "d", " ", "b", "e", " ",
              "u", "n", "e", "s", "c", "a", "p", "e", "d", "\n">>,
            <<"1", "2", "3", "4", "5", "6", "7", "8", "\n">> >>] >>

readTest4 ==
    readTest3 \o
    << [from |-> <<"t", "e", "s", "t", "@", "e", "x", "a", "m", "p", "l", "e", ".", "c", "o", "m">>,
        date |-> [sec |-> TestEpoch, nsec |-> 0],
        lines |-> <<
            <<">", ">", "F", "r", "o", "s", "t", "y", " ", "m", "o", "r",
              "n", "i", "n", "g", "\n">> >>] >>

TestArchives == {readTest3, readTest4}

BufSizes == {1, 3, 8, 4096}

----------------------------------------------------------------------------
(* Bodies the encoder is driven on                                         *)

(* body lines as the producer has them: plain, bare marker, marker after one
   '>', empty, a lone F, a marker without its space, a '>' run without marker *)
RawLines ==
    { <<"x", newLine>>,
      header \o <<"x", newLine>>,
      <<escape>> \o header \o <<"x", newLine>>,
      <<newLine>>,
      <<"F", newLine>>,
      <<"F", "r", "o", "m", newLine>>,
      <<escape, escape, "x", newLine>> }

(* whole bodies and bodies cut anywhere (no final '\n', or the end inside a
   '>' run or inside the marker) *)
Bodies ==
    UNION { { SubSeq(Flatten(ls), 1, k) : k \in 0..Len(Flatten(ls)) } :
              ls \in SeqsUpTo(RawLines, MaxBodyLines) }

(* envelopes: a time of whole seconds and one with a sub-second part *)
Envs ==
    { [from |-> <<"a">>, t |-> [sec |-> 0, nsec |-> 0]],
      [from |-> <<"a">>, t |-> [sec |-> 1, nsec |-> 1]] }

ChunkSizes(left) == (1..Min(MaxChunk, left)) \cup {left}

----------------------------------------------------------------------------
(* Driving the codec                                                       *)

(* what the last Read call returned: the count, the error, the return
   statement taken, the destination bytes, the error and the count the
   source returned to the call, if the call read the source, whether the call
   was made after a terminal signal, and the first terminal signal *)
NoRet ==
    [n |-> 0, err |-> "nil", site |-> "none", p |-> <<>>,
     srcErr |-> "nil", srcN |-> 0, again |-> FALSE, first |-> "nil"]
(* what the last encoder call was and returned: the method, the count and the
   error, len(p) of a Write, the size of the sink before the call, whether
   the call is an Open on a record still open or a Close on a record already
   closed, and the error the sink returned during the call *)
NoWret ==
    [op |-> "none", n |-> 0, err |-> "nil", len |-> 0, before |-> 0,
     again |-> FALSE, sinkErr |-> "nil"]

(* the error the sink returned between the states k0 and k1 of the sink *)
SinkErrBetween(k0, k1) ==
    IF k0.left >= 0 /\ k1.left = -1 THEN SinkErr ELSE "nil"

Done == \/ ret.err \in {InvalidHeader, InvalidFormat, Panic, SrcErr}
        \/ ret.err = "EOF" /\ ret.site # "boundary"

(* a decoder bound to a source holding an archive, whole or cut short *)
Init ==
    /\ \/ \E a \in Archives : \E k \in 0..Len(WireAll(a)) :
             /\ src = SubSeq(WireAll(a), 1, k)
             /\ recs = IF k = Len(WireAll(a)) THEN a ELSE <<>>
       \/ \E a \in TestArchives : src = WireAll(a) /\ recs = a
    /\ psize \in BufSizes
    /\ r = NewReader
    /\ srcPos = 0
    /\ srcFault = NoSrcFault
    /\ out = <<>>
    /\ sigs = <<>>
    /\ ret = NoRet
    /\ w = NewWriter
    /\ sink = <<>>
    /\ fault = NoFault
    /\ env = [from |-> <<>>, t |-> ZeroTime]
    /\ body = <<>>
    /\ bpos = 0
    /\ wret = NoWret
    /\ phase = "decoding"

(* one call of decoder.Read with a buffer of psize bytes *)
CallRead ==
    /\ phase = "decoding"
    /\ ~Done
    /\ LET got == SrcReadFaulty(src, srcPos, InputLen(r, psize), srcFault)
           c == ReadFrom(r, got, srcPos, psize)
       IN  /\ r' = c.d
           /\ srcPos' = c.pos
           /\ srcFault' = IF c.called THEN SrcFaultAfter(srcFault)
                          ELSE srcFault
           /\ out' = out \o SubSeq(c.p, 1, c.n)
           /\ sigs' = IF c.err = "nil" THEN sigs
                      ELSE Append(sigs, [at |-> Len(out) + c.n,
                                         err |-> c.err, site |-> c.site,
                                         state |-> c.d.state])
           /\ ret' = [NoRet EXCEPT
                         !.n = c.n, !.err = c.err, !.site = c.site, !.p = c.p,
                         !.srcErr = IF c.called THEN got.err ELSE "nil",
                         !.srcN = IF c.called THEN got.n ELSE 0]
    /\ UNCHANGED <<src, psize, recs, encVars, phase>>

Next == CallRead

Spec == Init /\ [][Next]_vars

(* a producer with an envelope and a body, and a new encoder on an empty sink;
   the consumer reads the sink back once the record is closed *)
InitCodec ==
    /\ env \in Envs
    /\ body \in Bodies
    /\ w = NewWriter
    /\ sink = <<>>
    /\ fault = NoFault
    /\ bpos = 0
    /\ wret = NoWret
    /\ phase = "new"
    /\ r = NewReader
    /\ src = <<>>
    /\ srcPos = 0
    /\ srcFault = NoSrcFault
    /\ psize = 0
    /\ recs = <<>>
    /\ out = <<>>
    /\ sigs = <<>>
    /\ ret = NoRet

CallOpen ==
    /\ phase = "new"
    /\ w' = Open(w, env.from, env.t)
    /\ wret' = [NoWret EXCEPT !.op = "Open", !.before = Len(sink)]
    /\ phase' = "open"
    /\ UNCHANGED <<decVars, sink, fault, env, body, bpos>>

(* one call of encoder.Write with the next len bytes of the body; the
   producer stops at the first error, as io.CopyBuffer does *)
CallWrite ==
    /\ phase = "open"
    /\ wret.err = "nil"
    /\ bpos < Len(body)
    /\ \E len \in ChunkSizes(Len(body) - bpos) :
          LET c == Write(w, Slice(body, bpos, bpos + len), SinkOf(sink, fault))
          IN  /\ w' = c.e
              /\ sink' = c.sink.bytes
              /\ fault' = FaultOf(c.sink)
              /\ wret' = [NoWret EXCEPT
                             !.op = "Write", !.n = c.n, !.err = c.err,
                             !.len = len, !.before = Len(sink),
                             !.sinkErr = SinkErrBetween(SinkOf(sink, fault),
                                                        c.sink)]
              /\ bpos' = bpos + len
    /\ UNCHANGED <<decVars, env, body, phase>>

CallClose ==
    /\ phase = "open"
    /\ wret.err = "nil"
    /\ bpos = Len(body)
    /\ LET c == Close(w, SinkOf(sink, fault))
       IN  /\ w' = c.e
           /\ sink' = c.sink.bytes
           /\ fault' = FaultOf(c.sink)
           /\ wret' = [NoWret EXCEPT
                          !.op = "Close", !.err = c.err, !.before = Len(sink),
                          !.sinkErr = SinkErrBetween(SinkOf(sink, fault),
                                                     c.sink)]
    /\ phase' = "closed"
    /\ UNCHANGED <<decVars, env, body, bpos>>

(* the producer lets go of the encoder and the consumer binds a new decoder
   to the bytes of the sink *)
Feed ==
    /\ phase = "closed"
    /\ \E ps \in BufSizes : psize' = ps
    /\ src' = sink
    /\ r' = NewReader
    /\ w' = NewWriter
    /\ wret' = NoWret
    /\ phase' = "decoding"
    /\ UNCHANGED <<srcPos, srcFault, recs, out, sigs, ret, sink, fault, env,
                   body, bpos>>

NextCodec == CallOpen \/ CallWrite \/ CallClose \/ Feed \/ CallRead

SpecCodec == InitCodec /\ [][NextCodec]_vars

----------------------------------------------------------------------------
(* A producer that repeats Open or Close                                   *)

(* Open on a record that is open and not yet closed *)
CallOpenAgain ==
    /\ phase = "open"
    /\ Len(w.sb) <= MaxReopen * Len(HeaderLine(env.from, env.t))
    /\ w' = Open(w, env.from, env.t)
    /\ wret' = [NoWret EXCEPT !.op = "Open", !.before = Len(sink),
                              !.again = TRUE]
    /\ UNCHANGED <<decVars, sink, fault, env, body, bpos, phase>>

(* Close on a record that is closed, with no Open in between *)
CallCloseAgain ==
    /\ phase = "closed"
    /\ LET c == Close(w, SinkOf(sink, fault))
       IN  /\ w' = c.e
           /\ sink' = c.sink.bytes
           /\ fault' = FaultOf(c.sink)
           /\ wret' = [NoWret EXCEPT
                          !.op = "Close", !.err = c.err, !.before = Len(sink),
                          !.again = TRUE,
                          !.sinkErr = SinkErrBetween(SinkOf(sink, fault),
                                                     c.sink)]
    /\ phase' = "reclosed"
    /\ UNCHANGED <<decVars, env, body, bpos>>

NextMisuse ==
    CallOpen \/ CallOpenAgain \/ CallWrite \/ CallClose \/ CallCloseAgain

SpecMisuse == InitCodec /\ [][NextMisuse]_vars

----------------------------------------------------------------------------
(* A sink that fails one write                                             *)

(* the sink serves 0..MaxSinkCalls Write calls and fails the next one, of
   which it accepts no byte or one byte; it has a Close method or not *)
Faults ==
    { [NoFault EXCEPT !.left = l, !.acc = a, !.closer = c] :
        l \in 0..MaxSinkCalls, a \in 0..1, c \in BOOLEAN }

InitFault ==
    /\ env \in Envs
    /\ body \in Bodies
    /\ fault \in Faults
    /\ w = NewWriter
    /\ sink = <<>>
    /\ bpos = 0
    /\ wret = NoWret
    /\ phase = "new"
    /\ r = NewReader
    /\ src = <<>>
    /\ srcPos = 0
    /\ srcFault = NoSrcFault
    /\ psize = 0
    /\ recs = <<>>
    /\ out = <<>>
    /\ sigs = <<>>
    /\ ret = NoRet

NextFault == CallOpen \/ CallWrite \/ CallClose

SpecFault == InitFault /\ [][NextFault]_vars

----------------------------------------------------------------------------
(* Streams that do not begin with the marker                               *)

(* the bytes tried at the position of the mismatch *)
WrongBytes == {"x", newLine, escape, "F", " "}

(* what follows the mismatching byte: nothing, the end of a line, or the
   rest of a record *)
MagicTails ==
    { <<>>, eol, <<"a", " ", "D", " ", "0", newLine, "x", newLine, newLine>> }

(* k bytes of the marker, then a byte that is not the marker's next byte *)
MagicMismatches ==
    UNION { { (SubSeq(header, 1, k) \o <<c>>) \o t :
                  c \in WrongBytes \ {header[k + 1]}, t \in MagicTails } :
              k \in 0..(Len(header) - 1) }

(* a decoder bound to a source that does not begin with the marker *)
InitMagic ==
    /\ src \in MagicMismatches
    /\ recs = <<>>
    /\ psize \in BufSizes
    /\ r = NewReader
    /\ srcPos = 0
    /\ srcFault = NoSrcFault
    /\ out = <<>>
    /\ sigs = <<>>
    /\ ret = NoRet
    /\ w = NewWriter
    /\ sink = <<>>
    /\ fault = NoFault
    /\ env = [from |-> <<>>, t |-> ZeroTime]
    /\ body = <<>>
    /\ bpos = 0
    /\ wret = NoWret
    /\ phase = "decoding"

NextMagic == CallRead

SpecMagic == InitMagic /\ [][NextMagic]_vars

----------------------------------------------------------------------------
(* A source that fails one read                                            *)

(* the source serves 0..MaxSrcCalls Read calls and fails the next one, with
   which it hands out no byte, one byte or up to eight bytes *)
SrcFaults ==
    { [left |-> l, with |-> k] : l \in 0..MaxSrcCalls, k \in {0, 1, 8} }

(* a decoder bound to a failing source that holds a whole archive *)
InitSrcFault ==
    /\ \E a \in Archives : src = WireAll(a) /\ recs = a
    /\ srcFault \in SrcFaults
    /\ psize \in BufSizes
    /\ r = NewReader
    /\ srcPos = 0
    /\ out = <<>>
    /\ sigs = <<>>
    /\ ret = NoRet
    /\ w = NewWriter
    /\ sink = <<>>
    /\ fault = NoFault
    /\ env = [from |-> <<>>, t |-> ZeroTime]
    /\ body = <<>>
    /\ bpos = 0
    /\ wret = NoWret
    /\ phase = "decoding"

NextSrcFault == CallRead

SpecSrcFault == InitSrcFault /\ [][NextSrcFault]_vars

----------------------------------------------------------------------------
(* A consumer that resets the decoder                                      *)

(* the record that follows in the source *)
NextArchive ==
    << [from |-> <<"b">>, date |-> [sec |-> 1, nsec |-> 0],
        lines |-> << <<"x", newLine>> >>] >>

(* a decoder bound to a source that holds an archive of one record cut
   anywhere and then a whole record *)
InitReset ==
    /\ \E a \in FirstRecords(MaxLines2) : \E k \in 0..Len(Wire(a)) :
          src = SubSeq(Wire(a), 1, k) \o WireAll(NextArchive)
    /\ recs = <<>>
    /\ psize \in BufSizes
    /\ r = NewReader
    /\ srcPos = 0
    /\ srcFault = NoSrcFault
    /\ out = <<>>
    /\ sigs = <<>>
    /\ ret = NoRet
    /\ w = NewWriter
    /\ sink = <<>>
    /\ fault = NoFault
    /\ env = [from |-> <<>>, t |-> ZeroTime]
    /\ body = <<>>
    /\ bpos = 0
    /\ wret = NoWret
    /\ phase = "decoding"

(* decoder.Close() after any Read call that left bytes in the source; the
   consumer empties its buffer and then reads on *)
CallReaderClose ==
    /\ phase = "decoding"
    /\ ret.site \notin {"none", "closed"}
    /\ srcPos < Len(src)
    /\ r' = ReaderClose(r)
    /\ out' = <<>>
    /\ sigs' = <<>>
    /\ ret' = [NoRet EXCEPT !.site = "closed"]
    /\ UNCHANGED <<src, srcPos, srcFault, psize, recs, encVars, phase>>

NextReset == CallRead \/ CallReaderClose

SpecReset == InitReset /\ [][NextReset]_vars

----------------------------------------------------------------------------
(* Header lines of any text                                                *)

(* a new decoder bound to a source that does not fail, and an encoder that is
   not used *)
NewDecoderIdleEncoder ==
    /\ r = NewReader
    /\ srcPos = 0
    /\ srcFault = NoSrcFault
    /\ out = <<>>
    /\ sigs = <<>>
    /\ ret = NoRet
    /\ w = NewWriter
    /\ sink = <<>>
    /\ fault = NoFault
    /\ env = [from |-> <<>>, t |-> ZeroTime]
    /\ body = <<>>
    /\ bpos = 0
    /\ wret = NoWret
    /\ phase = "decoding"

(* what stands between the marker and the '\n' of the header line: nothing,
   a sender only, a sender and a space, a sender and a date text of one byte,
   a sender and a date, a date text that does not parse, an empty sender *)
HeaderTexts ==
    { <<>>,
      <<"a">>,
      <<"a", " ">>,
      <<"a", " ", "D">>,
      <<"a", " ">> \o FormatANSIC([sec |-> 0, nsec |-> 0]),
      <<"a", " ">> \o FormatANSIC([sec |-> TestEpoch, nsec |-> 0]),
      <<"a", " ", "D", " ">>,
      <<"a", " ", " ">> \o FormatANSIC([sec |-> 0, nsec |-> 0]),
      <<" ">> \o FormatANSIC([sec |-> 0, nsec |-> 0]) }

(* the body that follows the header line *)
HeaderTails == { <<"x", newLine, newLine>>, <<newLine>> }

(* a decoder bound to a source whose header line holds any of the texts *)
InitHeader ==
    /\ \E h \in HeaderTexts : \E t \in HeaderTails :
          src = ((header \o h) \o eol) \o t
    /\ recs = <<>>
    /\ psize \in BufSizes
    /\ NewDecoderIdleEncoder

NextHeader == CallRead

SpecHeader == InitHeader /\ [][NextHeader]_vars

----------------------------------------------------------------------------
(* A producer that writes two records with one encoder                     *)

(* the bodies of the first record: up to MaxLines2 raw lines, cut anywhere *)
ReuseBodies ==
    UNION { { SubSeq(Flatten(ls), 1, k) : k \in 0..Len(Flatten(ls)) } :
              ls \in SeqsUpTo(RawLines, MaxLines2) }

(* the bodies of the second record: a plain line, a marker line, and bodies
   that end inside a '>' run and inside the marker *)
NextBodies ==
    { <<"x", newLine>>, header \o <<"x", newLine>>, <<escape>>, <<"F">> }

(* the sink never fails, or it fails one write of which it accepts up to one
   byte *)
ReuseFaults ==
    {NoFault} \cup { [NoFault EXCEPT !.left = l, !.acc = 1, !.closer = c] :
                        l \in 0..MaxSinkCalls, c \in BOOLEAN }

(* recs holds the envelope and the body of the record closed before *)
InitReuse ==
    /\ env \in Envs
    /\ body \in ReuseBodies
    /\ fault \in ReuseFaults
    /\ w = NewWriter
    /\ sink = <<>>
    /\ bpos = 0
    /\ wret = NoWret
    /\ phase = "new"
    /\ r = NewReader
    /\ src = <<>>
    /\ srcPos = 0
    /\ srcFault = NoSrcFault
    /\ psize = 0
    /\ recs = <<>>
    /\ out = <<>>
    /\ sigs = <<>>
    /\ ret = NoRet

(* Close after a Write call that returned an error *)
CallCloseAfterError ==
    /\ phase = "open"
    /\ wret.err # "nil"
    /\ LET c == Close(w, SinkOf(sink, fault))
       IN  /\ w' = c.e
           /\ sink' = c.sink.bytes
           /\ fault' = FaultOf(c.sink)
           /\ wret' = [NoWret EXCEPT
                          !.op = "Close", !.err = c.err, !.before = Len(sink),
                          !.sinkErr = SinkErrBetween(SinkOf(sink, fault),
                                                     c.sink)]
    /\ phase' = "closed"
    /\ UNCHANGED <<decVars, env, body, bpos>>

(* Open for the second record, on the instance that closed the first *)
CallOpenNext ==
    /\ phase = "closed"
    /\ recs = <<>>
    /\ \E e \in Envs : \E b \in NextBodies :
          /\ env' = e
          /\ body' = b
          /\ w' = Open(w, e.from, e.t)
    /\ recs' = <<[env |-> env, body |-> body]>>
    /\ bpos' = 0
    /\ wret' = [NoWret EXCEPT !.op = "Open", !.before = Len(sink)]
    /\ phase' = "open"
    /\ UNCHANGED <<r, src, srcPos, srcFault, psize, out, sigs, ret, sink,
                   fault>>

NextReuse ==
    CallOpen \/ CallWrite \/ CallClose \/ CallCloseAfterError \/ CallOpenNext

SpecReuse == InitReuse /\ [][NextReuse]_vars

----------------------------------------------------------------------------
(* Bodies whose last line starts with the bare marker                      *)

(* a line that starts with the marker and has no '>' before it *)
BareMarkerLine == header \o <<"x", newLine>>

(* the lines before it: plain, empty, stuffed marker, '>' without marker *)
LinesBefore ==
    { <<"x", newLine>>,
      <<newLine>>,
      <<escape>> \o header \o <<"x", newLine>>,
      <<escape, "x", newLine>> }

(* a decoder bound to a source that holds one record: up to MaxBefore lines
   and then the bare marker line *)
InitBare ==
    /\ \E ls \in SeqsUpTo(LinesBefore, MaxBefore) :
          recs = << [from |-> <<"a">>, date |-> [sec |-> 0, nsec |-> 0],
                     lines |-> Append(ls, BareMarkerLine)] >>
    /\ src = WireAll(recs)
    /\ psize \in BufSizes
    /\ NewDecoderIdleEncoder

NextBare == CallRead

SpecBare == InitBare /\ [][NextBare]_vars

----------------------------------------------------------------------------
(* Bodies with a long run of '>' at the start of a line                    *)

(* the lengths of the run: one byte, a block less one, a block, a block and
   one byte, two blocks and one byte *)
RunLengths == {1, spSize - 1, spSize, spSize + 1, 2 * spSize + 1}

(* what stands before the line of the run, and what follows the run: the end
   of the body, the rest of a plain line, the marker and the rest of the
   line, the marker and the end of the body *)
RunHeads == { <<>>, <<"x", newLine>> }

RunTails == { <<>>, <<"x", newLine>>, header \o <<"x", newLine>>, header }

(* a producer whose body has such a run, and a sink that keeps the slices of
   the Write calls it gets *)
InitLongRun ==
    /\ env \in Envs
    /\ \E h \in RunHeads : \E k \in RunLengths : \E t \in RunTails :
          body = (h \o [j \in 1..k |-> escape]) \o t
    /\ fault = [NoFault EXCEPT !.log = TRUE]
    /\ w = NewWriter
    /\ sink = <<>>
    /\ bpos = 0
    /\ wret = NoWret
    /\ phase = "new"
    /\ r = NewReader
    /\ src = <<>>
    /\ srcPos = 0
    /\ srcFault = NoSrcFault
    /\ psize = 0
    /\ recs = <<>>
    /\ out = <<>>
    /\ sigs = <<>>
    /\ ret = NoRet

NextLongRun == CallOpen \/ CallWrite \/ CallClose

SpecLongRun == InitLongRun /\ [][NextLongRun]_vars

----------------------------------------------------------------------------
(* A consumer that reads on after a terminal signal                        *)

(* the last Read call returned InvalidHeader, InvalidFormat or the io.EOF
   that is not a boundary *)
Terminal ==
    \/ ret.err \in {InvalidHeader, InvalidFormat}
    \/ ret.err = "EOF" /\ ret.site # "boundary"

(* a source cut anywhere, or one that does not begin with the marker *)
InitSticky == Init \/ InitMagic

(* one more call of decoder.Read on the same instance, with no reset *)
CallReadAgain ==
    /\ phase = "decoding"
    /\ Terminal
    /\ LET got == SrcReadFaulty(src, srcPos, InputLen(r, psize), srcFault)
           c == ReadFrom(r, got, srcPos, psize)
       IN  /\ r' = c.d
           /\ srcPos' = c.pos
           /\ srcFault' = IF c.called THEN SrcFaultAfter(srcFault)
                          ELSE srcFault
           /\ out' = out \o SubSeq(c.p, 1, c.n)
           /\ ret' = [NoRet EXCEPT
                         !.n = c.n, !.err = c.err, !.site = c.site, !.p = c.p,
                         !.srcErr = IF c.called THEN got.err ELSE "nil",
                         !.srcN = IF c.called THEN got.n ELSE 0,
                         !.again = TRUE,
                         !.first = IF ret.again THEN ret.first ELSE ret.err]
    /\ UNCHANGED <<src, psize, recs, sigs, encVars, phase>>

NextSticky == CallRead \/ CallReadAgain

SpecSticky == InitSticky /\ [][NextSticky]_vars

----------------------------------------------------------------------------
(* A producer that passes empty chunks to Write                            *)

(* one call of encoder.Write with a chunk of no bytes, on an open record:
   the for loop of Write is not entered *)
CallWriteEmpty ==
    /\ phase = "open"
    /\ wret.err = "nil"
    /\ LET c == Write(w, <<>>, SinkOf(sink, fault))
       IN  /\ w' = c.e
           /\ sink' = c.sink.bytes
           /\ fault' = FaultOf(c.sink)
           /\ wret' = [NoWret EXCEPT
                          !.op = "Write", !.n = c.n, !.err = c.err,
                          !.len = 0, !.before = Len(sink),
                          !.sinkErr = SinkErrBetween(SinkOf(sink, fault),
                                                     c.sink)]
    /\ UNCHANGED <<decVars, env, body, bpos, phase>>

NextEmpty == CallOpen \/ CallWriteEmpty \/ CallWrite \/ CallClose

SpecEmpty == InitCodec /\ [][NextEmpty]_vars

----------------------------------------------------------------------------
(* The scan loop of Read, one pass at a time                               *)

(* a Read call is between its statements: phase is "scanning", r is the
   decoder so far, ret.n the count and ret.p the destination bytes so far *)
Scanning == phase = "scanning"

(* the condition of the for loop of Read *)
LoopCond == r.iPos < r.iN /\ Len(ret.p) < psize

(* a return statement of Read is taken with the result rt; base carries what
   the source returned to the call *)
ReturnRead(rt, base) ==
    /\ r' = rt.d
    /\ out' = out \o SubSeq(rt.p, 1, rt.n)
    /\ sigs' = IF rt.err = "nil" THEN sigs
               ELSE Append(sigs, [at |-> Len(out) + rt.n, err |-> rt.err,
                                  site |-> rt.site, state |-> rt.d.state])
    /\ ret' = [base EXCEPT !.n = rt.n, !.err = rt.err, !.site = rt.site,
                           !.p = rt.p]
    /\ phase' = "decoding"

(* a Read call with a buffer of psize bytes begins: the source is read if the
   window is used up, and the call returns at once or reaches the loop *)
EnterRead ==
    /\ phase = "decoding"
    /\ ~Done
    /\ LET got == SrcReadFaulty(src, srcPos, InputLen(r, psize), srcFault)
           e == ReadEnter(r, got, srcPos, psize)
           base == [NoRet EXCEPT
                       !.srcErr = IF e.called THEN got.err ELSE "nil",
                       !.srcN = IF e.called THEN got.n ELSE 0]
       IN  /\ srcPos' = e.pos
           /\ srcFault' = IF e.called THEN SrcFaultAfter(srcFault)
                          ELSE srcFault
           /\ IF e.ret.site # "continue"
              THEN ReturnRead(e.ret, base)
              ELSE /\ r' = e.ret.d
                   /\ ret' = [base EXCEPT !.site = "continue"]
                   /\ phase' = "scanning"
                   /\ UNCHANGED <<out, sigs>>
    /\ UNCHANGED <<src, psize, recs, encVars>>

(* one pass of the body of the loop: it returns or the loop goes on *)
ScanStep ==
    /\ Scanning
    /\ LoopCond
    /\ LET b == LoopBody(r, ret.n, ret.p, psize)
       IN  IF b.site # "continue"
           THEN ReturnRead(b, ret)
           ELSE /\ r' = b.d
                /\ ret' = [ret EXCEPT !.n = b.n, !.p = b.p]
                /\ UNCHANGED <<out, sigs, phase>>
    /\ UNCHANGED <<src, srcPos, srcFault, psize, recs, encVars>>

(* the condition of the loop is false: return n, nil *)
LeaveRead ==
    /\ Scanning
    /\ ~LoopCond
    /\ ReturnRead(Ret(r, ret.n, ret.p, "nil", "loop"), ret)
    /\ UNCHANGED <<src, srcPos, srcFault, psize, recs, encVars>>

NextScan == EnterRead \/ ScanStep \/ LeaveRead

(* the caller repeats Read until a terminal signal and a call that has begun
   runs on: a step that is possible is taken *)
SpecScan == Init /\ [][NextScan]_vars /\ WF_vars(NextScan)

----------------------------------------------------------------------------
(* Reference definitions of the format, used to state the properties       *)

(* the lines of a byte sequence: each ends with its '\n', except a last
   line that has none *)
RECURSIVE SplitLines(_)
SplitLines(bs) ==
    IF bs = <<>> THEN <<>>
    ELSE LET i == IndexEol(bs)
         IN  IF i = -1 THEN <<bs>>
             ELSE <<Slice(bs, 0, i + 1)>> \o SplitLines(Slice(bs, i + 1, Len(bs)))

(* the length of the leading run of '>' of a line *)
RECURSIVE LeadRun(_)
LeadRun(l) ==
    IF l # <<>> /\ Head(l) = escape THEN 1 + LeadRun(Tail(l)) ELSE 0

(* a run of k >= 0 '>' followed by the marker *)
IsMarkerLine(l) ==
    /\ Len(l) >= LeadRun(l) + Len(header)
    /\ Slice(l, LeadRun(l), LeadRun(l) + Len(header)) = header

(* the mboxrd rule: one more '>' on every marker line *)
StuffRef(bs) ==
    LET ls == SplitLines(bs)
    IN  Flatten([k \in 1..Len(ls) |->
                   IF IsMarkerLine(ls[k]) THEN <<escape>> \o ls[k] ELSE ls[k]])

(* and back: one '>' less on every marker line with a run of one or more *)
DestuffRef(bs) ==
    LET ls == SplitLines(bs)
    IN  Flatten([k \in 1..Len(ls) |->
                   IF IsMarkerLine(ls[k]) /\ LeadRun(ls[k]) >= 1
                   THEN Tail(ls[k]) ELSE ls[k]])

(* the stored body of a record, and the body a consumer should get *)
StoredBody(rec) == Flatten(rec.lines)

RECURSIVE DeliveredRef(_)
DeliveredRef(rs) ==
    IF rs = <<>> THEN <<>>
    ELSE DestuffRef(StoredBody(Head(rs))) \o DeliveredRef(Tail(rs))

(* a record as a correct encoder stores it: no line is the bare marker *)
WellFormed(rs) ==
    \A k \in 1..Len(rs) : \A j \in 1..Len(rs[k].lines) :
        ~(IsMarkerLine(rs[k].lines[j]) /\ LeadRun(rs[k].lines[j]) = 0)

(* the signals as a caller sees them: the value and the output offset *)
SigList == [k \in 1..Len(sigs) |-> <<sigs[k].at, sigs[k].err>>]

(* io.CopyBuffer over the decoder, again and again until an error or the end
   of the source: every byte delivered and every signal with its offset *)
RECURSIVE DriveFrom(_, _, _, _, _, _)
DriveFrom(d, s, pos, plen, o, sg) ==
    LET c == Read(d, s, pos, plen)
        o1 == o \o SubSeq(c.p, 1, c.n)
        sg1 == IF c.err = "nil" THEN sg ELSE Append(sg, <<Len(o1), c.err>>)
    IN  IF \/ c.err \in {InvalidHeader, InvalidFormat, Panic}
           \/ c.err = "EOF" /\ c.site # "boundary"
        THEN [out |-> o1, sigs |-> sg1]
        ELSE DriveFrom(c.d, s, c.pos, plen, o1, sg1)

Drive(s, plen) == DriveFrom(NewReader, s, 0, plen, <<>>, <<>>)

(* Open, one Write of the whole body, Close: the bytes left in the sink *)
EncodeWhole(e, b) ==
    Close(Write(Open(NewWriter, e.from, e.t), b, Buffer).e,
          Write(Open(NewWriter, e.from, e.t), b, Buffer).sink).sink.bytes

readTest3Body ==
    <<">", ">", ">", "F", "r", "o", "m", " ", "t", "h", "i", "s", " ", "s",
      "h", "o", "u", "l", "d", " ", "b", "e", " ", "u", "n", "e", "s", "c",
      "a", "p", "e", "d", "\n", "1", "2", "3", "4", "5", "6", "7", "8",
      "\n">>

----------------------------------------------------------------------------
(* Properties                                                              *)

(* C1: decoder chunk-size invariance.  When a drive of the decoder over an
   archive with buffers of size 1, 8 or 4096 is complete, the bytes delivered
   and the signals with their output offsets are those of the drive with each
   of the sizes 1, 8 and 4096. *)
C1_DecoderChunkInvariance ==
    (phase = "decoding" /\ Done /\ psize \in {1, 8, 4096}) =>
        \A q \in {1, 8, 4096} :
            /\ out = Drive(src, q).out
            /\ SigList = Drive(src, q).sigs

(* C2: encoder chunk-size invariance.  Once the record is closed, the sink
   holds exactly the bytes that Open, one Write of the whole body and Close
   leave there, however the body was cut into Write calls. *)
C2_EncoderChunkInvariance ==
    phase = "closed" => sink = EncodeWhole(env, body)

(* C2 witness: the body ">From " was pushed in several Write calls, the last
   of them the single byte ' ' (a cut inside the marker), and closed. *)
C2_Witness ==
    /\ phase = "closed"
    /\ body = <<escape>> \o header
    /\ w.pos = 1
    /\ sink = HeaderLine(env.from, env.t) \o <<escape, escape>> \o header \o eol

(* C3: escape / unescape symmetry.  For a body made of marker lines (k >= 0
   '>' then "From " then the rest of the line), the sink holds every line
   with one more '>', and reading the record back delivers the body byte for
   byte and ends cleanly. *)
MarkerLinesOnly(b) ==
    /\ b # <<>>
    /\ b[Len(b)] = newLine
    /\ \A k \in 1..Len(SplitLines(b)) : IsMarkerLine(SplitLines(b)[k])

C3_EscapeSymmetry ==
    MarkerLinesOnly(body) =>
        /\ phase \in {"closed", "decoding"} =>
              sink = HeaderLine(env.from, env.t) \o StuffRef(body) \o eol
        /\ (phase = "decoding" /\ Done) =>
              /\ out = body
              /\ ret.err = "EOF"

(* C4: round trip.  For a body of one or more bytes in which no line is a
   marker line, reading
   the written record back delivers exactly the body, ends with a clean
   end-of-stream and no error, and Header() gives the sender and time passed
   to Open. *)
NoEscapeNeeded(b) ==
    \A k \in 1..Len(SplitLines(b)) : ~IsMarkerLine(SplitLines(b)[k])

C4_RoundTrip ==
    (body # <<>> /\ NoEscapeNeeded(body) /\ phase = "decoding" /\ Done) =>
        /\ out = body
        /\ SigList = <<<<Len(body), "EOF">>>>
        /\ Header(r) = [err |-> "nil", from |-> env.from, date |-> env.t]

(* C5: the encoder's stuffing rule.  Once the record of a body of one or more
   whole lines is closed the sink holds
   the header line, then the body with one '>' put before every marker line
   and every other byte unchanged, then the final '\n'. *)
C5_EncoderStuffing ==
    (body # <<>> /\ body[Len(body)] = newLine /\ phase = "closed") =>
        sink = HeaderLine(env.from, env.t) \o StuffRef(body) \o eol

(* C6: the decoder's de-stuffing rule.  For an archive of well-formed
   records the bytes delivered by a complete drive are the stored bodies with
   one '>' removed from every marker line with a run of one or more and every
   other byte unchanged; the archive of TestReadLastLine delivers ">>>From
   this should be unescaped\n12345678\n" and then a clean end-of-stream. *)
C6_DecoderDestuffing ==
    (phase = "decoding" /\ recs # <<>> /\ WellFormed(recs) /\ Done) =>
        /\ out = DeliveredRef(recs)
        /\ recs = readTest3 =>
              /\ out = readTest3Body
              /\ SigList = <<<<Len(readTest3Body), "EOF">>>>

(* C7: boundary detection.  For an archive of two well-formed records the
   decoder reports one end-of-current-message, between the two bodies; no
   byte of the second marker or header line is delivered; Header() right
   after that signal gives the first record's sender and date, and after the
   drive the second record's. *)
HeaderOf(rec) == [err |-> "nil", from |-> rec.from, date |-> rec.date]

C7_BoundaryDetection ==
    (phase = "decoding" /\ Len(recs) = 2 /\ WellFormed(recs)) =>
        /\ ret.site = "boundary" =>
              /\ Header(r) = HeaderOf(recs[1])
              /\ Len(out) <= Len(StoredBody(recs[1]))
        /\ Done =>
              /\ Cardinality({k \in 1..Len(sigs) :
                                sigs[k].site = "boundary"}) = 1
              /\ Len(out) <= Len(StoredBody(recs[1])) + Len(StoredBody(recs[2]))
              /\ Header(r) = HeaderOf(recs[2])

(* C8 as claimed: the value Read returns at a boundary that another record
   follows differs from the value it returns at the clean end of the
   archive. *)
CleanEnd(sg) == sg.site \in {"source", "recycled"} /\ sg.state = readStateEnd

C8_SignalsDiffer ==
    \A i, j \in 1..Len(sigs) :
        (sigs[i].site = "boundary" /\ CleanEnd(sigs[j])) =>
            sigs[i].err # sigs[j].err

(* C8 as amended: Read returns io.EOF at a boundary that another record
   follows and io.EOF at the clean end of the archive; what tells the two
   apart is the scanner state the call leaves behind, readStateNextRecord
   after a boundary and readStateEnd at the clean end. *)
C8_SameSignalOtherState ==
    \A k \in 1..Len(sigs) :
        /\ sigs[k].site = "boundary" =>
              sigs[k].err = "EOF" /\ sigs[k].state = readStateNextRecord
        /\ CleanEnd(sigs[k]) => sigs[k].err = "EOF"
        /\ sigs[k].err = "EOF" =>
              sigs[k].state \in {readStateNextRecord, readStateEnd}

(* C8 witness: a drive that got a boundary signal and then the clean end *)
C8_Witness ==
    /\ Len(sigs) = 2
    /\ sigs[1].site = "boundary"
    /\ CleanEnd(sigs[2])

(* C9: end of source inside the first record's header.  When the source has
   no '\n' at all (it is empty, or ends inside the marker, right after it, or
   inside the header line), no Read call delivers a byte or a signal until
   the call that finds the source at its end, and that call returns
   InvalidHeader. *)
C9_EofInFirstHeader ==
    (phase = "decoding" /\ IndexEol(src) = -1) =>
        /\ out = <<>>
        /\ ret.site \in {"none", "loop", "source"}
        /\ ret.site = "source" =>
              ret.err = InvalidHeader /\ ret.n = 0 /\ srcPos = Len(src)
        /\ ret.site # "source" => ret.err = "nil"

(* C9 witness: the source is exactly "From " and the call that found its end
   has returned *)
C9_Witness ==
    /\ phase = "decoding"
    /\ src = header
    /\ psize = 1
    /\ ret.site = "source"
    /\ ret.err = InvalidHeader

(* C10: end of source in the body.  The Read call that finds the source at
   its end returns InvalidFormat when the scanner is in a body state other
   than readStateEnd, and a clean io.EOF when it is in readStateEnd, the
   state reached right after an empty line. *)
BodyStates ==
    {readStateStartLine, readStatePutEol, readStateCopy, readStateMatchFrom,
     readStateOutputFrom, readStateHeaderMagicEOF}

C10_EofInBody ==
    (phase = "decoding" /\ ret.site = "source") =>
        /\ r.state \in BodyStates => ret.err = InvalidFormat
        /\ r.state = readStateEnd => ret.err = "EOF"
        /\ ret.n = 0
        /\ srcPos = Len(src)

(* C10 witness: the source ended while the marker after an empty line was
   being matched *)
C10_Witness ==
    /\ phase = "decoding"
    /\ ret.site = "source"
    /\ r.state = readStateHeaderMagicEOF
    /\ r.matches = 2
    /\ ret.err = InvalidFormat

(* C11: a stream that does not begin with the marker.  The Read call that
   sees a byte differing from the marker's next byte, while the decoder is in
   readStateHeaderMagic, fails with InvalidHeader. *)
C11_MagicMismatch ==
    (phase = "decoding" /\ ret.site = "magic") =>
        /\ r.state = readStateHeaderMagic
        /\ ret.err = InvalidHeader

(* C12: Open on a record that is still open.  The call returns an error and
   the pending header stays the one header line of the open record. *)
C12_OpenWhileOpen ==
    (wret.op = "Open" /\ wret.again) =>
        /\ wret.err # "nil"
        /\ w.sb = HeaderLine(env.from, env.t)

(* C13: Close twice with no Open in between.  The second call either writes
   nothing to the sink or returns an error. *)
C13_CloseTwice ==
    (wret.op = "Close" /\ wret.again) =>
        \/ Len(sink) = wret.before
        \/ wret.err # "nil"

(* C14: the record ends with an empty line.  Once the record of a body of one
   or more bytes is closed, Close has added one '\n' as the last byte of the
   sink and the last two bytes of the sink are "\n\n"; reading the record
   back ends with a clean end-of-stream. *)
C14_EndsWithEmptyLine ==
    body # <<>> =>
        /\ phase = "closed" =>
              /\ Len(sink) >= 2
              /\ sink[Len(sink)] = newLine
              /\ sink[Len(sink) - 1] = newLine
        /\ (phase = "decoding" /\ Done) => ret.err = "EOF"

(* C15: Close flushes what the scanner holds.  Once the record of a body of
   one or more bytes is closed on a sink that accepted every byte, the sink
   without its '>' bytes is the header line, the body without its '>' bytes
   and the final '\n', and the sink holds at least the '>' bytes of the
   body: no body byte is missing or out of order. *)
WithoutEscapes(bs) == SelectSeq(bs, LAMBDA c : c # escape)

EscapesOf(bs) == Len(SelectSeq(bs, LAMBDA c : c = escape))

C15_CloseFlushes ==
    (phase = "closed" /\ body # <<>>) =>
        /\ WithoutEscapes(sink) =
              (HeaderLine(env.from, env.t) \o WithoutEscapes(body)) \o eol
        /\ EscapesOf(sink) >= EscapesOf(body)

(* C16: the count returned by Write.  A Write call on a chunk of len bytes
   returns n with 0 <= n <= len, and n = len when it returns no error. *)
C16_WriteCount ==
    wret.op = "Write" =>
        /\ 0 <= wret.n
        /\ wret.n <= wret.len
        /\ wret.err = "nil" => wret.n = wret.len

(* C17: the header line is written once, by the first Write that carries
   body bytes.  Before any body byte was passed to Write the sink is empty;
   from the first Write with body bytes on, the sink begins with the header
   line prepared by Open and holds that line exactly once. *)
Occurrences(pat, bs) ==
    Cardinality({ i \in 1..(Len(bs) - Len(pat) + 1) :
                    SubSeq(bs, i, i + Len(pat) - 1) = pat })

C17_HeaderOnce ==
    /\ (phase \in {"new", "open"} /\ bpos = 0) => sink = <<>>
    /\ bpos > 0 =>
          /\ Len(sink) >= Len(HeaderLine(env.from, env.t))
          /\ SubSeq(sink, 1, Len(HeaderLine(env.from, env.t)))
                = HeaderLine(env.from, env.t)
          /\ Occurrences(HeaderLine(env.from, env.t), sink) = 1

(* C17 witness: the body "From x\n" went through several Write calls, the
   last of one byte, and the sink holds the header line and the stuffed
   line *)
C17_Witness ==
    /\ phase = "open"
    /\ body = header \o <<"x", newLine>>
    /\ bpos = Len(body)
    /\ wret.op = "Write"
    /\ wret.len = 1
    /\ sink = (HeaderLine(env.from, env.t) \o headerEscaped) \o <<"x", newLine>>

(* C18: encoder error propagation.  When a write to the sink made by a Write
   or a Close call fails, that call returns the error of the sink. *)
C18_SinkErrorReturned ==
    (wret.op \in {"Write", "Close"} /\ wret.sinkErr # "nil") =>
        wret.err = wret.sinkErr

(* C19: decoder error propagation.  When the source returns an error other
   than io.EOF to a Read call of the decoder, with zero bytes or with some
   bytes, that Read call returns the same error. *)
C19_SourceErrorReturned ==
    (phase = "decoding" /\ ret.srcErr = SrcErr) => ret.err = SrcErr

(* C20: decoder reset.  Right after decoder.Close() the scanner state is that
   of a new decoder (readStateHeaderMagic, no marker byte matched, no '>'
   counted, replay cursor 0, empty header text, empty input window), and the
   instance decodes the rest of the source as a new decoder does. *)
C20_ResetIsNew ==
    (phase = "decoding" /\ ret.site = "closed") =>
        /\ r.state = readStateHeaderMagic
        /\ r.matches = 0
        /\ r.escapeCount = 0
        /\ r.hPos = 0
        /\ r.header = <<>>
        /\ r.iN = 0
        /\ r.iPos = 0
        /\ DriveFrom(r, src, srcPos, psize, <<>>, <<>>)
             = DriveFrom(NewReader, src, srcPos, psize, <<>>, <<>>)

(* C21: Header() validity.  Header() reports an error whenever the
   accumulated header text is empty, has no space, or has after its first
   space a date text that does not parse (an empty date text and one of a
   single byte included); it reports no error, with the sender equal to the
   text before the first space, only when the date text parses. *)
DateText(s) == Slice(s, IndexSpace(s) + 1, Len(s))

HeaderValid(s) ==
    /\ s # <<>>
    /\ IndexSpace(s) # -1
    /\ ParseANSIC(DateText(s)).err = "nil"

C21_HeaderValidity ==
    phase = "decoding" =>
        /\ ~HeaderValid(r.header) => Header(r).err # "nil"
        /\ Header(r).err = "nil" =>
              /\ HeaderValid(r.header)
              /\ Header(r).from = Slice(r.header, 0, IndexSpace(r.header))

(* C22: encoder reuse.  After every Close call, with or without an error,
   the encoder is in its initial state: writeStateHeader, no '>' counted, no
   marker byte matched, empty header text.  On a sink that never fails, after
   Open / Write* / Close twice on one instance the sink holds the bytes a new
   encoder leaves for the first record and then the bytes a new encoder leaves
   for the second, and each record with a body of one or more bytes starts
   with its own header line. *)
C22_EncoderReuse ==
    /\ wret.op = "Close" =>
          /\ w.state = writeStateHeader
          /\ w.stuffingCount = 0
          /\ w.matches = 0
          /\ w.sb = <<>>
    /\ (phase = "closed" /\ Len(recs) = 1 /\ fault = NoFault) =>
          LET first == EncodeWhole(recs[1].env, recs[1].body)
              second == EncodeWhole(env, body)
              h1 == HeaderLine(recs[1].env.from, recs[1].env.t)
              h2 == HeaderLine(env.from, env.t)
          IN  /\ sink = first \o second
              /\ recs[1].body # <<>> => SubSeq(first, 1, Len(h1)) = h1
              /\ body # <<>> => SubSeq(second, 1, Len(h2)) = h2

(* C22 witness: the first body ended inside the marker ("Fr"), the second is
   a marker line, and both records are closed *)
C22_Witness ==
    /\ phase = "closed"
    /\ Len(recs) = 1
    /\ fault = NoFault
    /\ recs[1].body = <<"F", "r">>
    /\ body = header \o <<"x", newLine>>
    /\ recs[1].env # env
    /\ sink = ((HeaderLine(recs[1].env.from, recs[1].env.t) \o eol)
               \o HeaderLine(env.from, env.t))
              \o ((headerEscaped \o <<"x", newLine>>) \o eol)

(* C23: end of source inside the header of a later record.  When a Read call
   has signalled a boundary and the source ends before the header line of the
   record that follows is terminated (right after the marker, where the
   scanner is still in readStateNextRecord, or inside the line, where it is in
   readStateHeaderValues), the Read call that finds the source at its end
   returns InvalidHeader. *)
AfterBoundary ==
    /\ Len(sigs) >= 2
    /\ sigs[Len(sigs) - 1].site = "boundary"

C23_EofInLaterHeader ==
    (/\ phase = "decoding"
     /\ ret.site = "source"
     /\ AfterBoundary
     /\ r.state \in {readStateNextRecord, readStateHeaderValues}) =>
        ret.err = InvalidHeader

(* C24: the flush of the pending '>' run and marker bytes resumes.  When a
   Read call returns with '>' bytes or matched marker bytes still to emit,
   the scanner is left where the next Read call emits them before anything
   else: it is never left in readStateCopy, which copies later source bytes
   and then drops what is pending at the end of the line. *)
C24_FlushResumes ==
    (/\ phase = "decoding"
     /\ ret.site = "loop"
     /\ r.escapeCount > 0 \/ r.matches > 0) =>
        r.state # readStateCopy

(* C25: an empty line that is not a boundary.  For a record whose body is an
   empty line and then a line that does not start with the marker nor with a
   stuffed marker ("Fromx\n", "x\n", ">x\n", ...), no Read call signals an
   end-of-current-message, and the complete drive delivers the body byte for
   byte: the '\n' of the empty line, the marker bytes matched speculatively,
   the mismatching byte and the rest of the line. *)
EmptyLineThenOther(rs) ==
    /\ Len(rs) = 1
    /\ Len(rs[1].lines) = 2
    /\ rs[1].lines[1] = eol
    /\ ~IsMarkerLine(rs[1].lines[2])

C25_EmptyLineNotBoundary ==
    (phase = "decoding" /\ EmptyLineThenOther(recs)) =>
        /\ \A k \in 1..Len(sigs) : sigs[k].site # "boundary"
        /\ Done => out = StoredBody(recs[1])

(* C26: zero stuffing.  The pending '>' count is never negative, and a body line
   that starts with the bare marker and does not directly follow an empty
   line produces no end-of-current-message signal and is delivered
   unchanged. *)
LastLine(rs) == rs[1].lines[Len(rs[1].lines)]

BareNotAfterEmpty(rs) ==
    /\ LastLine(rs) = BareMarkerLine
    /\ Len(rs[1].lines) >= 2 => rs[1].lines[Len(rs[1].lines) - 1] # eol

EndsWith(bs, l) ==
    /\ Len(bs) >= Len(l)
    /\ SubSeq(bs, Len(bs) - Len(l) + 1, Len(bs)) = l

C26_ZeroStuffing ==
    /\ r.escapeCount >= 0
    /\ (phase = "decoding" /\ BareNotAfterEmpty(recs)) =>
          /\ \A k \in 1..Len(sigs) : sigs[k].site # "boundary"
          /\ Done => EndsWith(out, BareMarkerLine)

(* C27: long '>' runs in the encoder.  For a body line that starts with a
   run of k '>' (k = 1, 31, 32, 33, 65), once the record is closed the sink
   got the run in pieces of at most 32 bytes whose lengths sum to k, all the
   slices it got make up its content, and it holds the header line, the body
   with one more '>' where the run is followed by the marker, and the final
   '\n'. *)
IsRunPiece(b) == b # <<>> /\ \A j \in 1..Len(b) : b[j] = escape

RECURSIVE SumLen(_)
SumLen(ps) == IF ps = <<>> THEN 0 ELSE Len(Head(ps)) + SumLen(Tail(ps))

C27_LongRuns ==
    (phase = "closed" /\ fault.log) =>
        /\ \A j \in 1..Len(fault.calls) :
              IsRunPiece(fault.calls[j]) => Len(fault.calls[j]) <= spSize
        /\ SumLen(SelectSeq(fault.calls, IsRunPiece)) = EscapesOf(body)
        /\ Flatten(fault.calls) = sink
        /\ sink = (HeaderLine(env.from, env.t) \o StuffRef(body)) \o eol

(* C27 witness: a run of 33 '>' followed by "From x\n" was written in several
   calls and closed; the sink got a piece of 32 and a piece of 1, and holds
   34 '>' before the marker *)
C27_Witness ==
    /\ phase = "closed"
    /\ body = [j \in 1..(spSize + 1) |-> escape] \o (header \o <<"x", newLine>>)
    /\ wret.before > Len(HeaderLine(env.from, env.t))
    /\ SelectSeq(fault.calls, IsRunPiece)
         = << [j \in 1..spSize |-> escape], <<escape>> >>
    /\ sink = ((HeaderLine(env.from, env.t) \o [j \in 1..(spSize + 2) |-> escape])
               \o (header \o <<"x", newLine>>)) \o eol

(* C28: terminal signals are sticky.  A Read call made after a Read call
   returned InvalidHeader, InvalidFormat or the clean end-of-stream, on the
   same instance and with no reset, returns that same signal and delivers
   no byte, and so does every call after it. *)
C28_TerminalSticky ==
    (phase = "decoding" /\ ret.again) =>
        /\ ret.err = ret.first
        /\ ret.n = 0
        /\ Terminal

(* C29: the count Read returns.  Every Read call that returns gives a count
   n with 0 <= n <= len(p), and n is the number of bytes the call placed in
   p, also when one of them is the '\n' of an empty line that was not a
   boundary. *)
C29_ReadCount ==
    (phase = "decoding" /\ ret.site \notin {"none", "closed", "panic"}) =>
        /\ 0 <= ret.n
        /\ ret.n <= psize
        /\ ret.n = Len(ret.p)

(* C30: the replay cursor stays in range.  In every reachable state of the
   decoder the replay cursor plus the number of marker bytes matched and
   still to replay is at most the length of the marker, no Read call indexes
   the marker out of range, and the cursor is 0 while a marker is being
   matched. *)
C30_ReplayCursor ==
    phase = "decoding" =>
        /\ r.hPos + r.matches <= Len(header)
        /\ ret.err # Panic
        /\ r.state \in {readStateHeaderMagic, readStateHeaderMagicEOF,
                        readStateMatchFrom} => r.hPos = 0

(* the signals Read returns: end of the current message and end of stream
   (both io.EOF) and the errors *)
Signals == {"EOF", InvalidHeader, InvalidFormat, SrcErr}

(* how far a scanner state is from a pass that advances a cursor: a pass in
   a state of rank 0 advances r.iPos or i or returns; a pass in another state
   does so or goes to a state of lower rank *)
StateRank(st) ==
    IF st \in {readStateStartLine, readStateMatchFrom, readStateEnd} THEN 2
    ELSE IF st \in {readStateOutputFrom, readStateNextRecord,
                    readStateHeaderMagicEOF} THEN 1
    ELSE 0

(* a pass of the loop advances the input cursor or the output index, returns,
   or changes the state toward one that does *)
PassAdvances ==
    [][Scanning => \/ r'.iPos > r.iPos
                   \/ Len(ret'.p) > Len(ret.p)
                   \/ ~Scanning'
                   \/ StateRank(r'.state) < StateRank(r.state)]_vars

(* a call that has returned used up its input window, filled the destination
   or returned a signal *)
CallOutcome ==
    (phase = "decoding" /\ ret.site # "none") =>
        \/ r.iPos = r.iN
        \/ Len(ret.p) = psize
        \/ ret.err \in Signals

(* C31: progress of the decoder.  Every pass of the scan loop advances the
   input cursor or the output index, returns, or changes the state toward
   one that does; every Read call that has begun returns, and has then used
   up its input window, filled the destination or returned a signal; and
   repeated Read calls on a finite source eventually return end of message,
   end of stream or an error. *)
C31_DecoderProgress ==
    /\ PassAdvances
    /\ Scanning ~> ~Scanning
    /\ []CallOutcome
    /\ <>(ret.err \in Signals)

BeginsWith(bs, l) == Len(bs) >= Len(l) /\ SubSeq(bs, 1, Len(l)) = l

(* C32: a record with no body bytes is still a record.  Once a record is
   closed with no error, the sink begins with the header line of the record,
   and when no body byte was passed to Write (no Write call, or only Write
   calls with a chunk of no bytes) the sink is that header line followed by
   the '\n' of Close. *)
C32_EmptyRecord ==
    (phase = "closed" /\ wret.err = "nil") =>
        /\ BeginsWith(sink, HeaderLine(env.from, env.t))
        /\ body = <<>> => sink = HeaderLine(env.from, env.t) \o eol

====
